---- MODULE Spec2Model ----
(***************************************************************************)
(* Model of crates/evm/src/execute.rs: the block execution traits and the  *)
(* generic single-block executor that drives a BlockExecutionStrategy      *)
(* obtained from a BlockExecutionStrategyFactory.                          *)
(*                                                                         *)
(* One call of execute / execute_with_state_witness /                      *)
(* execute_with_state_hook is modelled statement by statement: every call  *)
(* the function makes on the factory or the strategy is one step.          *)
(***************************************************************************)
EXTENDS Naturals, Sequences, FiniteSets

VARIABLES
    provider,     \* GenericExecutorProvider { strategy_factory, chain_spec, evm_config }
    input,        \* BlockExecutionInput { block, total_difficulty }
    executor,     \* GenericBlockExecutor { strategy_factory, chain_spec, evm_config, state }
    mode,         \* which Executor method is running
    pc,           \* position inside the running method
    strategy,     \* local `strategy`
    receipts,     \* local `receipts`
    gas_used,     \* local `gas_used`
    requests,     \* local `requests`
    result,       \* value returned by the running method
    calls,        \* calls made on the factory / strategy / witness by the running method
    witnessSeen,  \* the states the witness closure was invoked with
    hookSeen,     \* the state changes the state hook was notified of
    mutLog,       \* every state change made by the strategy, with whether a hook was installed
    history,      \* results of the finished calls, oldest first
    batch,        \* the batch executor the caller holds
    binputs,      \* the inputs B1..Bn the caller feeds to the batch executor, in order
    bnext,        \* index of the first input not yet taken from binputs
    bstack,       \* the BatchExecutor methods running, outermost first
    bpc,          \* position inside the innermost running method
    bret,         \* what the method that returned last handed to its caller
    one,          \* locals of the running execute_and_verify_one
    blog,         \* the invocations of execute_and_verify_one, oldest first
    bresults,     \* what the caller's finished calls returned, oldest first
    outcome       \* the Outcome returned to the caller

execVars == <<provider, input, executor, mode, pc, strategy, receipts, gas_used,
              requests, result, calls, witnessSeen, hookSeen, mutLog, history>>

batchVars == <<batch, binputs, bnext, bstack, bpc, bret, one, blog, bresults, outcome>>

vars == <<execVars, batchVars>>

-----------------------------------------------------------------------------
(* Bounds *)

MaxTxs == 2
MaxMuts == 1
MaxCalls == 2
MaxBatch == 3

(* Values used by tests::test_strategy *)
TestGas == 10

-----------------------------------------------------------------------------
(* Data *)

None == [tag |-> "None"]

Modes == {"execute", "witness", "hook"}

\* Transaction i of a block consumes TxGas(i) gas.
TxGas(i) == i

RECURSIVE SumTo(_)
\* Cumulative gas of the first n transactions.
SumTo(n) == IF n = 0 THEN 0 ELSE TxGas(n) + SumTo(n - 1)

DefaultReceipt == [cumulative_gas_used |-> 0]

DepositRequest == [kind |-> "DepositRequest"]

DefaultBundle == << >>

\* The receipts an honest execution of a block with n transactions yields.
BlockReceipts(n) == [i \in 1..n |-> [cumulative_gas_used |-> SumTo(i)]]

\* Commitment to a receipt sequence carried in the block header.
ReceiptsRoot(rs) == [root_of |-> rs]

\* A block: its number of transactions and the header's declared gas used and
\* receipts commitment (which need not agree with what execution yields).
Blocks ==
    UNION { { [txs |-> n, gas_used |-> g, receipts_root |-> r] :
                g \in {SumTo(n), TestGas},
                r \in {ReceiptsRoot(BlockReceipts(n)), ReceiptsRoot(<<DefaultReceipt>>)} } :
            n \in 0..MaxTxs }

Inputs == { [block |-> b, total_difficulty |-> 0] : b \in Blocks }

\* State::builder().with_database(db).with_bundle_update().without_state_clear().build()
StateBuild(db) ==
    [database |-> db, bundle_update |-> TRUE, state_clear |-> FALSE, bundle |-> << >>]

\* tests::TestExecutorStrategyFactory
TestFactories ==
    { [kind |-> "test",
       execute_transactions_result |-> etr,
       apply_post_execution_changes_result |-> post,
       finish_result |-> fin] :
        etr \in { << << >>, 0 >>, << <<DefaultReceipt>>, TestGas >> },
        post \in { << >>, <<DepositRequest>> },
        fin \in { DefaultBundle, <<[stage |-> "canned", idx |-> 0, n |-> 0]>> } }

\* A chain-family strategy factory: which stage fails (if any), how many state
\* changes each transaction makes, whether the system calls before and after
\* the transactions write state, and the requests the block yields.
ChainFactories ==
    { [kind |-> "chain", fail |-> f, mutsPerTx |-> m, sysWrites |-> w, requests |-> rq] :
        f \in {"none", "create", "pre", "txs", "post"},
        m \in 0..MaxMuts,
        w \in BOOLEAN,
        rq \in { << >>, <<DepositRequest>> } }

Factories == TestFactories \cup ChainFactories

-----------------------------------------------------------------------------
(* Results of the fallible calls *)

Ok(v) == [ok |-> TRUE, value |-> v]
Err(e) == [ok |-> FALSE, error |-> e]

\* What a strategy stage hands back: its Result, the strategy after the call,
\* and the state changes it made while running, in order.
Stage(res, s, evs) == [res |-> res, strategy |-> s, events |-> evs]

RECURSIVE TxEvents(_, _, _)
\* The state changes of transactions from..to, m per transaction, in block order.
TxEvents(from, to, m) ==
    IF from > to THEN << >>
    ELSE [k \in 1..m |-> [stage |-> "tx", idx |-> from, n |-> k]] \o TxEvents(from + 1, to, m)

Written(s, evs) == [s EXCEPT !.state.bundle = @ \o evs]

Some(h) == [tag |-> "Some", hook |-> h]

\* The state changes a strategy reports to its hook: all of them when a hook
\* is installed, none otherwise.
Notified(s, evs) == IF s.hook # None THEN evs ELSE << >>

Logged(s, evs) == [i \in 1..Len(evs) |-> [event |-> evs[i], hooked |-> s.hook # None]]

-----------------------------------------------------------------------------
(* tests::TestExecutorStrategyFactory and tests::TestExecutorStrategy *)

Test_create(f, block, td) ==
    Ok([kind |-> "test",
        state |-> StateBuild([own |-> "CacheDB"]),
        hook |-> None,
        execute_transactions_result |-> f.execute_transactions_result,
        apply_post_execution_changes_result |-> f.apply_post_execution_changes_result,
        finish_result |-> f.finish_result])

Test_apply_pre_execution_changes(s) == Stage(Ok(<< >>), s, << >>)

Test_execute_transactions(s, block) == Stage(Ok(s.execute_transactions_result), s, << >>)

Test_apply_post_execution_changes(s) ==
    Stage(Ok(s.apply_post_execution_changes_result), s, << >>)

Test_state_ref(s) == s.state

Test_with_state_hook(s, hook) == s

Test_finish(s) == s.finish_result

-----------------------------------------------------------------------------
(* A chain-family strategy, behaving as the BlockExecutionStrategy and     *)
(* BlockExecutionStrategyFactory contracts describe.                       *)

Chain_create(f, block, td) ==
    IF f.fail = "create" THEN Err("create")
    ELSE Ok([kind |-> "chain",
             state |-> StateBuild([own |-> "FactoryDB"]),
             hook |-> None,
             fail |-> f.fail,
             mutsPerTx |-> f.mutsPerTx,
             sysWrites |-> f.sysWrites,
             requests |-> f.requests])

Chain_apply_pre_execution_changes(s) ==
    IF s.fail = "pre" THEN Stage(Err("pre"), s, << >>)
    ELSE LET evs == IF s.sysWrites THEN <<[stage |-> "pre", idx |-> 0, n |-> 1]>> ELSE << >>
         IN Stage(Ok(<< >>), Written(s, evs), evs)

\* Executes the transactions in block order. With a factory whose fail is
\* "txs" the last transaction of a block cannot be executed: execution stops
\* there, the earlier transactions having already written state.
Chain_execute_transactions(s, block) ==
    IF s.fail = "txs" /\ block.txs > 0
    THEN LET evs == TxEvents(1, block.txs - 1, s.mutsPerTx)
         IN Stage(Err("txs"), Written(s, evs), evs)
    ELSE LET evs == TxEvents(1, block.txs, s.mutsPerTx)
         IN Stage(Ok(<<BlockReceipts(block.txs), SumTo(block.txs)>>), Written(s, evs), evs)

Chain_apply_post_execution_changes(s) ==
    IF s.fail = "post" THEN Stage(Err("post"), s, << >>)
    ELSE LET evs == IF s.sysWrites THEN <<[stage |-> "post", idx |-> 0, n |-> 1]>> ELSE << >>
         IN Stage(Ok(s.requests), Written(s, evs), evs)

Chain_state_ref(s) == s.state

Chain_with_state_hook(s, hook) == [s EXCEPT !.hook = hook]

Chain_finish(s) == s.state.bundle

-----------------------------------------------------------------------------
(* The trait methods, dispatched on the implementing type *)

create(f, block, td) ==
    IF f.kind = "test" THEN Test_create(f, block, td) ELSE Chain_create(f, block, td)

apply_pre_execution_changes(s) ==
    IF s.kind = "test" THEN Test_apply_pre_execution_changes(s)
    ELSE Chain_apply_pre_execution_changes(s)

execute_transactions(s, block) ==
    IF s.kind = "test" THEN Test_execute_transactions(s, block)
    ELSE Chain_execute_transactions(s, block)

apply_post_execution_changes(s) ==
    IF s.kind = "test" THEN Test_apply_post_execution_changes(s)
    ELSE Chain_apply_post_execution_changes(s)

state_ref(s) == IF s.kind = "test" THEN Test_state_ref(s) ELSE Chain_state_ref(s)

with_state_hook(s, hook) ==
    IF s.kind = "test" THEN Test_with_state_hook(s, hook) ELSE Chain_with_state_hook(s, hook)

finish(s) == IF s.kind = "test" THEN Test_finish(s) ELSE Chain_finish(s)

-----------------------------------------------------------------------------
(* Initial state and the executor provider *)

\* No batch executor has been created.
NoBatch ==
    /\ batch = None
    /\ binputs = << >>
    /\ bnext = 1
    /\ bstack = << >>
    /\ bpc = "idle"
    /\ bret = None
    /\ one = None
    /\ blog = << >>
    /\ bresults = << >>
    /\ outcome = None

Init ==
    /\ \E f \in Factories :
          provider = [strategy_factory |-> f, chain_spec |-> "MAINNET", evm_config |-> "EvmConfig"]
    /\ input \in Inputs
    /\ executor = None
    /\ mode = "none"
    /\ pc = "idle"
    /\ strategy = None
    /\ receipts = << >>
    /\ gas_used = 0
    /\ requests = << >>
    /\ result = None
    /\ calls = << >>
    /\ witnessSeen = << >>
    /\ hookSeen = << >>
    /\ mutLog = << >>
    /\ history = << >>
    /\ NoBatch

\* GenericBlockExecutor::new
GenericBlockExecutor_new(strategy_factory, chain_spec, evm_config, state) ==
    [strategy_factory |-> strategy_factory, chain_spec |-> chain_spec,
     evm_config |-> evm_config, state |-> state]

\* The database handle the caller passes to the provider in its k-th call.
Database(k) == [handle |-> k]

\* Mutant: the provider keeps the overlay of the executor it created before
\* and hands it out again.
GenericExecutorProvider_executor_SharesOverlay ==
    /\ pc \in {"idle", "returned"}
    /\ Len(history) < MaxCalls
    /\ executor' = GenericBlockExecutor_new(provider.strategy_factory, provider.chain_spec,
                                            provider.evm_config,
                                            IF executor = None
                                            THEN StateBuild(Database(Len(history) + 1))
                                            ELSE executor.state)
    /\ pc' = "ready"
    /\ mode' = "none"
    /\ strategy' = None
    /\ receipts' = << >>
    /\ gas_used' = 0
    /\ requests' = << >>
    /\ result' = None
    /\ calls' = << >>
    /\ witnessSeen' = << >>
    /\ hookSeen' = << >>
    /\ mutLog' = << >>
    /\ UNCHANGED <<provider, input, history>>
    /\ UNCHANGED batchVars

\* GenericExecutorProvider::executor: a caller obtains an executor for the
\* input, passing the database handle of this call.
GenericExecutorProvider_executor ==
    /\ pc \in {"idle", "returned"}
    /\ Len(history) < MaxCalls
    /\ executor' = GenericBlockExecutor_new(provider.strategy_factory, provider.chain_spec,
                                            provider.evm_config, StateBuild(Database(Len(history) + 1)))
    /\ pc' = "ready"
    /\ mode' = "none"
    /\ strategy' = None
    /\ receipts' = << >>
    /\ gas_used' = 0
    /\ requests' = << >>
    /\ result' = None
    /\ calls' = << >>
    /\ witnessSeen' = << >>
    /\ hookSeen' = << >>
    /\ mutLog' = << >>
    /\ UNCHANGED <<provider, input, history>>
    /\ UNCHANGED batchVars

\* `return res` from the running method m (the `?` operator or the final Ok).
Return(m, res) ==
    /\ result' = res
    /\ pc' = "returned"
    /\ history' = Append(history, [mode |-> m, result |-> res])

\* The effects of a strategy stage on what outlives it: the hook's
\* observations and the log of state changes.
Observed(st) ==
    /\ hookSeen' = hookSeen \o Notified(strategy, st.events)
    /\ mutLog' = mutLog \o Logged(strategy, st.events)

\* A record of one call made by the running method: what was called, with
\* which argument, and what it returned.
Call(name, arg, ret) == [name |-> name, arg |-> arg, ret |-> ret]

\* A Result without its payload.
Outcome(r) == IF r.ok THEN Ok("strategy") ELSE r

BlockExecutionOutput(state, rcpts, reqs, gas) ==
    [state |-> state, receipts |-> rcpts, requests |-> reqs, gas_used |-> gas]

-----------------------------------------------------------------------------
(* GenericBlockExecutor::execute *)

\* Mutant: the pre-execution stage is skipped.
Execute_create_SkipsPre ==
    /\ pc = "ready"
    /\ mode' = "execute"
    /\ LET r == create(executor.strategy_factory, input.block, input.total_difficulty)
       IN /\ calls' = Append(calls, Call("create", input, Outcome(r)))
          /\ IF r.ok
             THEN strategy' = r.value /\ pc' = "pre_applied" /\ UNCHANGED <<result, history>>
             ELSE strategy' = None /\ Return("execute", Err(r.error))
    /\ UNCHANGED <<provider, input, executor, receipts, gas_used, requests,
                   witnessSeen, hookSeen, mutLog>>
    /\ UNCHANGED batchVars

Execute_create ==
    /\ pc = "ready"
    /\ mode' = "execute"
    /\ LET r == create(executor.strategy_factory, input.block, input.total_difficulty)
       IN /\ calls' = Append(calls, Call("create", input, Outcome(r)))
          /\ IF r.ok
             THEN strategy' = r.value /\ pc' = "created" /\ UNCHANGED <<result, history>>
             ELSE strategy' = None /\ Return("execute", Err(r.error))
    /\ UNCHANGED <<provider, input, executor, receipts, gas_used, requests,
                   witnessSeen, hookSeen, mutLog>>
    /\ UNCHANGED batchVars

Execute_apply_pre_execution_changes ==
    /\ mode = "execute" /\ pc = "created"
    /\ LET st == apply_pre_execution_changes(strategy)
       IN /\ calls' = Append(calls, Call("apply_pre_execution_changes", None, st.res))
          /\ Observed(st)
          /\ IF st.res.ok
             THEN strategy' = st.strategy /\ pc' = "pre_applied" /\ UNCHANGED <<result, history>>
             ELSE strategy' = None /\ Return("execute", Err(st.res.error))
    /\ UNCHANGED <<provider, input, executor, mode, receipts, gas_used, requests, witnessSeen>>
    /\ UNCHANGED batchVars

Execute_execute_transactions ==
    /\ mode = "execute" /\ pc = "pre_applied"
    /\ LET st == execute_transactions(strategy, input.block)
       IN /\ calls' = Append(calls, Call("execute_transactions", input.block, st.res))
          /\ Observed(st)
          /\ IF st.res.ok
             THEN /\ strategy' = st.strategy
                  /\ receipts' = st.res.value[1]
                  /\ gas_used' = st.res.value[2]
                  /\ pc' = "txs_executed"
                  /\ UNCHANGED <<result, history>>
             ELSE /\ strategy' = None
                  /\ Return("execute", Err(st.res.error))
                  /\ UNCHANGED <<receipts, gas_used>>
    /\ UNCHANGED <<provider, input, executor, mode, requests, witnessSeen>>
    /\ UNCHANGED batchVars

\* Mutant: the requests of the post-execution stage do not reach the Output.
Execute_apply_post_execution_changes_DropsRequests ==
    /\ mode = "execute" /\ pc = "txs_executed"
    /\ LET st == apply_post_execution_changes(strategy)
       IN /\ calls' = Append(calls, Call("apply_post_execution_changes", None, st.res))
          /\ Observed(st)
          /\ IF st.res.ok
             THEN /\ strategy' = st.strategy
                  /\ requests' = << >>
                  /\ pc' = "post_applied"
                  /\ UNCHANGED <<result, history>>
             ELSE /\ strategy' = None
                  /\ Return("execute", Err(st.res.error))
                  /\ UNCHANGED requests
    /\ UNCHANGED <<provider, input, executor, mode, receipts, gas_used, witnessSeen>>
    /\ UNCHANGED batchVars

Execute_apply_post_execution_changes ==
    /\ mode = "execute" /\ pc = "txs_executed"
    /\ LET st == apply_post_execution_changes(strategy)
       IN /\ calls' = Append(calls, Call("apply_post_execution_changes", None, st.res))
          /\ Observed(st)
          /\ IF st.res.ok
             THEN /\ strategy' = st.strategy
                  /\ requests' = st.res.value
                  /\ pc' = "post_applied"
                  /\ UNCHANGED <<result, history>>
             ELSE /\ strategy' = None
                  /\ Return("execute", Err(st.res.error))
                  /\ UNCHANGED requests
    /\ UNCHANGED <<provider, input, executor, mode, receipts, gas_used, witnessSeen>>
    /\ UNCHANGED batchVars

\* Mutant: the Output's state is taken from the executor's own overlay.
Execute_finish_OwnState ==
    /\ mode = "execute" /\ pc = "post_applied"
    /\ LET state == finish(strategy)
       IN /\ calls' = Append(calls, Call("finish", None, state))
          /\ Return("execute",
                    Ok(BlockExecutionOutput(executor.state.bundle, receipts, requests, gas_used)))
    /\ strategy' = None
    /\ UNCHANGED <<provider, input, executor, mode, receipts, gas_used, requests,
                   witnessSeen, hookSeen, mutLog>>
    /\ UNCHANGED batchVars

\* Mutant: the output is validated against the block header before it is returned.
Execute_finish_Verifies ==
    /\ mode = "execute" /\ pc = "post_applied"
    /\ LET state == finish(strategy)
       IN /\ calls' = Append(calls, Call("finish", None, state))
          /\ IF /\ gas_used = input.block.gas_used
                /\ ReceiptsRoot(receipts) = input.block.receipts_root
             THEN Return("execute", Ok(BlockExecutionOutput(state, receipts, requests, gas_used)))
             ELSE Return("execute", Err("validation"))
    /\ strategy' = None
    /\ UNCHANGED <<provider, input, executor, mode, receipts, gas_used, requests,
                   witnessSeen, hookSeen, mutLog>>
    /\ UNCHANGED batchVars

\* Mutant: the cumulative gas used is compared with the header's gas used.
Execute_finish_ChecksGas ==
    /\ mode = "execute" /\ pc = "post_applied"
    /\ LET state == finish(strategy)
       IN /\ calls' = Append(calls, Call("finish", None, state))
          /\ IF gas_used = input.block.gas_used
             THEN Return("execute", Ok(BlockExecutionOutput(state, receipts, requests, gas_used)))
             ELSE Return("execute", Err("gas"))
    /\ strategy' = None
    /\ UNCHANGED <<provider, input, executor, mode, receipts, gas_used, requests,
                   witnessSeen, hookSeen, mutLog>>
    /\ UNCHANGED batchVars

Execute_finish ==
    /\ mode = "execute" /\ pc = "post_applied"
    /\ LET state == finish(strategy)
       IN /\ calls' = Append(calls, Call("finish", None, state))
          /\ Return("execute", Ok(BlockExecutionOutput(state, receipts, requests, gas_used)))
    /\ strategy' = None
    /\ UNCHANGED <<provider, input, executor, mode, receipts, gas_used, requests,
                   witnessSeen, hookSeen, mutLog>>
    /\ UNCHANGED batchVars

Execute ==
    \/ Execute_create
    \/ Execute_apply_pre_execution_changes
    \/ Execute_execute_transactions
    \/ Execute_apply_post_execution_changes
    \/ Execute_finish

-----------------------------------------------------------------------------
(* GenericBlockExecutor::execute_with_state_witness *)

Witness_create ==
    /\ pc = "ready"
    /\ mode' = "witness"
    /\ LET r == create(executor.strategy_factory, input.block, input.total_difficulty)
       IN /\ calls' = Append(calls, Call("create", input, Outcome(r)))
          /\ IF r.ok
             THEN strategy' = r.value /\ pc' = "created" /\ UNCHANGED <<result, history>>
             ELSE strategy' = None /\ Return("witness", Err(r.error))
    /\ UNCHANGED <<provider, input, executor, receipts, gas_used, requests,
                   witnessSeen, hookSeen, mutLog>>
    /\ UNCHANGED batchVars

Witness_apply_pre_execution_changes ==
    /\ mode = "witness" /\ pc = "created"
    /\ LET st == apply_pre_execution_changes(strategy)
       IN /\ calls' = Append(calls, Call("apply_pre_execution_changes", None, st.res))
          /\ Observed(st)
          /\ IF st.res.ok
             THEN strategy' = st.strategy /\ pc' = "pre_applied" /\ UNCHANGED <<result, history>>
             ELSE strategy' = None /\ Return("witness", Err(st.res.error))
    /\ UNCHANGED <<provider, input, executor, mode, receipts, gas_used, requests, witnessSeen>>
    /\ UNCHANGED batchVars

\* Mutant: the number of receipts is kept as the gas used.
Witness_execute_transactions_CountsReceipts ==
    /\ mode = "witness" /\ pc = "pre_applied"
    /\ LET st == execute_transactions(strategy, input.block)
       IN /\ calls' = Append(calls, Call("execute_transactions", input.block, st.res))
          /\ Observed(st)
          /\ IF st.res.ok
             THEN /\ strategy' = st.strategy
                  /\ receipts' = st.res.value[1]
                  /\ gas_used' = Len(st.res.value[1])
                  /\ pc' = "txs_executed"
                  /\ UNCHANGED <<result, history>>
             ELSE /\ strategy' = None
                  /\ Return("witness", Err(st.res.error))
                  /\ UNCHANGED <<receipts, gas_used>>
    /\ UNCHANGED <<provider, input, executor, mode, requests, witnessSeen>>
    /\ UNCHANGED batchVars

Witness_execute_transactions ==
    /\ mode = "witness" /\ pc = "pre_applied"
    /\ LET st == execute_transactions(strategy, input.block)
       IN /\ calls' = Append(calls, Call("execute_transactions", input.block, st.res))
          /\ Observed(st)
          /\ IF st.res.ok
             THEN /\ strategy' = st.strategy
                  /\ receipts' = st.res.value[1]
                  /\ gas_used' = st.res.value[2]
                  /\ pc' = "txs_executed"
                  /\ UNCHANGED <<result, history>>
             ELSE /\ strategy' = None
                  /\ Return("witness", Err(st.res.error))
                  /\ UNCHANGED <<receipts, gas_used>>
    /\ UNCHANGED <<provider, input, executor, mode, requests, witnessSeen>>
    /\ UNCHANGED batchVars

\* Mutant: the witness is shown the state when the post-execution stage fails.
Witness_apply_post_execution_changes_WitnessOnErr ==
    /\ mode = "witness" /\ pc = "txs_executed"
    /\ LET st == apply_post_execution_changes(strategy)
       IN /\ calls' = Append(calls, Call("apply_post_execution_changes", None, st.res))
          /\ Observed(st)
          /\ witnessSeen' = IF st.res.ok THEN witnessSeen
                            ELSE Append(witnessSeen, state_ref(st.strategy))
          /\ IF st.res.ok
             THEN /\ strategy' = st.strategy
                  /\ requests' = st.res.value
                  /\ pc' = "post_applied"
                  /\ UNCHANGED <<result, history>>
             ELSE /\ strategy' = None
                  /\ Return("witness", Err(st.res.error))
                  /\ UNCHANGED requests
    /\ UNCHANGED <<provider, input, executor, mode, receipts, gas_used>>
    /\ UNCHANGED batchVars

Witness_apply_post_execution_changes ==
    /\ mode = "witness" /\ pc = "txs_executed"
    /\ LET st == apply_post_execution_changes(strategy)
       IN /\ calls' = Append(calls, Call("apply_post_execution_changes", None, st.res))
          /\ Observed(st)
          /\ IF st.res.ok
             THEN /\ strategy' = st.strategy
                  /\ requests' = st.res.value
                  /\ pc' = "post_applied"
                  /\ UNCHANGED <<result, history>>
             ELSE /\ strategy' = None
                  /\ Return("witness", Err(st.res.error))
                  /\ UNCHANGED requests
    /\ UNCHANGED <<provider, input, executor, mode, receipts, gas_used, witnessSeen>>
    /\ UNCHANGED batchVars

\* Mutant: the witness is handed the executor's own overlay.
Witness_witness_OwnState ==
    /\ mode = "witness" /\ pc = "post_applied"
    /\ calls' = Append(calls, Call("witness", None, None))
    /\ witnessSeen' = Append(witnessSeen, executor.state)
    /\ pc' = "witnessed"
    /\ UNCHANGED <<provider, input, executor, mode, strategy, receipts, gas_used, requests,
                   result, hookSeen, mutLog, history>>
    /\ UNCHANGED batchVars

\* witness(strategy.state_ref()): the closure gets a shared reference.
Witness_witness ==
    /\ mode = "witness" /\ pc = "post_applied"
    /\ calls' = Append(calls, Call("witness", None, None))
    /\ witnessSeen' = Append(witnessSeen, state_ref(strategy))
    /\ pc' = "witnessed"
    /\ UNCHANGED <<provider, input, executor, mode, strategy, receipts, gas_used, requests,
                   result, hookSeen, mutLog, history>>
    /\ UNCHANGED batchVars

\* Mutant: the witness call takes the bundle out of the state it is shown, so
\* finish has nothing left to extract.
Witness_finish_BundleTaken ==
    /\ mode = "witness" /\ pc = "witnessed"
    /\ LET state == DefaultBundle
       IN /\ calls' = Append(calls, Call("finish", None, state))
          /\ Return("witness", Ok(BlockExecutionOutput(state, receipts, requests, gas_used)))
    /\ strategy' = None
    /\ UNCHANGED <<provider, input, executor, mode, receipts, gas_used, requests,
                   witnessSeen, hookSeen, mutLog>>
    /\ UNCHANGED batchVars

Witness_finish ==
    /\ mode = "witness" /\ pc = "witnessed"
    /\ LET state == finish(strategy)
       IN /\ calls' = Append(calls, Call("finish", None, state))
          /\ Return("witness", Ok(BlockExecutionOutput(state, receipts, requests, gas_used)))
    /\ strategy' = None
    /\ UNCHANGED <<provider, input, executor, mode, receipts, gas_used, requests,
                   witnessSeen, hookSeen, mutLog>>
    /\ UNCHANGED batchVars

ExecuteWithStateWitness ==
    \/ Witness_create
    \/ Witness_apply_pre_execution_changes
    \/ Witness_execute_transactions
    \/ Witness_apply_post_execution_changes
    \/ Witness_witness
    \/ Witness_finish

-----------------------------------------------------------------------------
(* GenericBlockExecutor::execute_with_state_hook *)

\* Mutant: the executor writes to its own overlay before asking the factory.
Hook_create_TouchesState ==
    /\ pc = "ready"
    /\ mode' = "hook"
    /\ executor' = [executor EXCEPT !.state.bundle = Append(@, [stage |-> "create", idx |-> 0, n |-> 1])]
    /\ LET r == create(executor.strategy_factory, input.block, input.total_difficulty)
       IN IF r.ok
          THEN /\ strategy' = with_state_hook(r.value, Some("state_hook"))
               /\ calls' = calls \o <<Call("create", input, Outcome(r)),
                                      Call("with_state_hook", Some("state_hook"), None)>>
               /\ pc' = "created"
               /\ UNCHANGED <<result, history>>
          ELSE /\ strategy' = None
               /\ calls' = Append(calls, Call("create", input, Outcome(r)))
               /\ Return("hook", Err(r.error))
    /\ UNCHANGED <<provider, input, receipts, gas_used, requests,
                   witnessSeen, hookSeen, mutLog>>
    /\ UNCHANGED batchVars

\* Mutant: the hook is never handed to the strategy.
Hook_create_NoHook ==
    /\ pc = "ready"
    /\ mode' = "hook"
    /\ LET r == create(executor.strategy_factory, input.block, input.total_difficulty)
       IN /\ calls' = Append(calls, Call("create", input, Outcome(r)))
          /\ IF r.ok
             THEN strategy' = r.value /\ pc' = "created" /\ UNCHANGED <<result, history>>
             ELSE strategy' = None /\ Return("hook", Err(r.error))
    /\ UNCHANGED <<provider, input, executor, receipts, gas_used, requests,
                   witnessSeen, hookSeen, mutLog>>
    /\ UNCHANGED batchVars

\* Mutant: with_state_hook is called with no hook.
Hook_create_HookNone ==
    /\ pc = "ready"
    /\ mode' = "hook"
    /\ LET r == create(executor.strategy_factory, input.block, input.total_difficulty)
       IN IF r.ok
          THEN /\ strategy' = with_state_hook(r.value, None)
               /\ calls' = calls \o <<Call("create", input, Outcome(r)),
                                      Call("with_state_hook", None, None)>>
               /\ pc' = "created"
               /\ UNCHANGED <<result, history>>
          ELSE /\ strategy' = None
               /\ calls' = Append(calls, Call("create", input, Outcome(r)))
               /\ Return("hook", Err(r.error))
    /\ UNCHANGED <<provider, input, executor, receipts, gas_used, requests,
                   witnessSeen, hookSeen, mutLog>>
    /\ UNCHANGED batchVars

\* Mutant: the strategy is made to work on the executor's own overlay.
Hook_create_OverOwnState ==
    /\ pc = "ready"
    /\ mode' = "hook"
    /\ LET r == create(executor.strategy_factory, input.block, input.total_difficulty)
       IN IF r.ok
          THEN /\ strategy' = with_state_hook([r.value EXCEPT !.state = executor.state],
                                              Some("state_hook"))
               /\ calls' = calls \o <<Call("create", input, Outcome(r)),
                                      Call("with_state_hook", Some("state_hook"), None)>>
               /\ pc' = "created"
               /\ UNCHANGED <<result, history>>
          ELSE /\ strategy' = None
               /\ calls' = Append(calls, Call("create", input, Outcome(r)))
               /\ Return("hook", Err(r.error))
    /\ UNCHANGED <<provider, input, executor, receipts, gas_used, requests,
                   witnessSeen, hookSeen, mutLog>>
    /\ UNCHANGED batchVars

Hook_create ==
    /\ pc = "ready"
    /\ mode' = "hook"
    /\ LET r == create(executor.strategy_factory, input.block, input.total_difficulty)
       IN IF r.ok
          THEN /\ strategy' = with_state_hook(r.value, Some("state_hook"))
               /\ calls' = calls \o <<Call("create", input, Outcome(r)),
                                      Call("with_state_hook", Some("state_hook"), None)>>
               /\ pc' = "created"
               /\ UNCHANGED <<result, history>>
          ELSE /\ strategy' = None
               /\ calls' = Append(calls, Call("create", input, Outcome(r)))
               /\ Return("hook", Err(r.error))
    /\ UNCHANGED <<provider, input, executor, receipts, gas_used, requests,
                   witnessSeen, hookSeen, mutLog>>
    /\ UNCHANGED batchVars

Hook_apply_pre_execution_changes ==
    /\ mode = "hook" /\ pc = "created"
    /\ LET st == apply_pre_execution_changes(strategy)
       IN /\ calls' = Append(calls, Call("apply_pre_execution_changes", None, st.res))
          /\ Observed(st)
          /\ IF st.res.ok
             THEN strategy' = st.strategy /\ pc' = "pre_applied" /\ UNCHANGED <<result, history>>
             ELSE strategy' = None /\ Return("hook", Err(st.res.error))
    /\ UNCHANGED <<provider, input, executor, mode, receipts, gas_used, requests, witnessSeen>>
    /\ UNCHANGED batchVars

\* Mutant: an error of execute_transactions is swallowed.
Hook_execute_transactions_IgnoresErr ==
    /\ mode = "hook" /\ pc = "pre_applied"
    /\ LET st == execute_transactions(strategy, input.block)
       IN /\ calls' = Append(calls, Call("execute_transactions", input.block, st.res))
          /\ Observed(st)
          /\ strategy' = st.strategy
          /\ receipts' = IF st.res.ok THEN st.res.value[1] ELSE << >>
          /\ gas_used' = IF st.res.ok THEN st.res.value[2] ELSE 0
          /\ pc' = "txs_executed"
          /\ UNCHANGED <<result, history>>
    /\ UNCHANGED <<provider, input, executor, mode, requests, witnessSeen>>
    /\ UNCHANGED batchVars

Hook_execute_transactions ==
    /\ mode = "hook" /\ pc = "pre_applied"
    /\ LET st == execute_transactions(strategy, input.block)
       IN /\ calls' = Append(calls, Call("execute_transactions", input.block, st.res))
          /\ Observed(st)
          /\ IF st.res.ok
             THEN /\ strategy' = st.strategy
                  /\ receipts' = st.res.value[1]
                  /\ gas_used' = st.res.value[2]
                  /\ pc' = "txs_executed"
                  /\ UNCHANGED <<result, history>>
             ELSE /\ strategy' = None
                  /\ Return("hook", Err(st.res.error))
                  /\ UNCHANGED <<receipts, gas_used>>
    /\ UNCHANGED <<provider, input, executor, mode, requests, witnessSeen>>
    /\ UNCHANGED batchVars

\* Mutant: the requests of the post-execution stage are dropped.
Hook_apply_post_execution_changes_DropsRequests ==
    /\ mode = "hook" /\ pc = "txs_executed"
    /\ LET st == apply_post_execution_changes(strategy)
       IN /\ calls' = Append(calls, Call("apply_post_execution_changes", None, st.res))
          /\ Observed(st)
          /\ IF st.res.ok
             THEN /\ strategy' = st.strategy
                  /\ requests' = << >>
                  /\ pc' = "post_applied"
                  /\ UNCHANGED <<result, history>>
             ELSE /\ strategy' = None
                  /\ Return("hook", Err(st.res.error))
                  /\ UNCHANGED requests
    /\ UNCHANGED <<provider, input, executor, mode, receipts, gas_used, witnessSeen>>
    /\ UNCHANGED batchVars

Hook_apply_post_execution_changes ==
    /\ mode = "hook" /\ pc = "txs_executed"
    /\ LET st == apply_post_execution_changes(strategy)
       IN /\ calls' = Append(calls, Call("apply_post_execution_changes", None, st.res))
          /\ Observed(st)
          /\ IF st.res.ok
             THEN /\ strategy' = st.strategy
                  /\ requests' = st.res.value
                  /\ pc' = "post_applied"
                  /\ UNCHANGED <<result, history>>
             ELSE /\ strategy' = None
                  /\ Return("hook", Err(st.res.error))
                  /\ UNCHANGED requests
    /\ UNCHANGED <<provider, input, executor, mode, receipts, gas_used, witnessSeen>>
    /\ UNCHANGED batchVars

Hook_finish ==
    /\ mode = "hook" /\ pc = "post_applied"
    /\ LET state == finish(strategy)
       IN /\ calls' = Append(calls, Call("finish", None, state))
          /\ Return("hook", Ok(BlockExecutionOutput(state, receipts, requests, gas_used)))
    /\ strategy' = None
    /\ UNCHANGED <<provider, input, executor, mode, receipts, gas_used, requests,
                   witnessSeen, hookSeen, mutLog>>
    /\ UNCHANGED batchVars

ExecuteWithStateHook ==
    \/ Hook_create
    \/ Hook_apply_pre_execution_changes
    \/ Hook_execute_transactions
    \/ Hook_apply_post_execution_changes
    \/ Hook_finish

-----------------------------------------------------------------------------
(* The whole system: a caller obtains executors from the provider and runs  *)
(* one of the three Executor methods on each.                               *)

Next ==
    \/ GenericExecutorProvider_executor
    \/ Execute
    \/ ExecuteWithStateWitness
    \/ ExecuteWithStateHook

Spec == Init /\ [][Next]_vars

-----------------------------------------------------------------------------
(* Batch execution: the BatchExecutor trait, its provided methods, the     *)
(* tests' TestExecutor and a chain-family batch executor that drives the   *)
(* strategies of a factory over one long-lived state overlay.              *)

Unit == << >>

\* A batch executor that has been consumed by finalize or execute_and_verify_batch.
Moved == [kind |-> "moved"]

\* tests::TestExecutor(PhantomData)
TestExecutor == [kind |-> "test"]

\* The chain-family batch executor over the database handle db.
ChainBatchExecutor(f, db) ==
    [kind |-> "chain", strategy_factory |-> f, state |-> StateBuild(db),
     receipts |-> << >>, requests |-> << >>, tip |-> None, prune_modes |-> None]

\* The blocks of a batch: an empty block with a right header, and full blocks
\* whose header is right, or wrong in its gas used, or wrong in its receipts root.
Honest(b) == b.gas_used = SumTo(b.txs) /\ b.receipts_root = ReceiptsRoot(BlockReceipts(b.txs))

BatchBlocks ==
    { b \in Blocks :
        \/ b.txs = 0 /\ Honest(b)
        \/ /\ b.txs = MaxTxs
           /\ b.gas_used = SumTo(b.txs) \/ b.receipts_root = ReceiptsRoot(BlockReceipts(b.txs)) }

BatchInputs == { [block |-> b, total_difficulty |-> 0] : b \in BatchBlocks }

BatchInputSeqs == UNION { [1..n -> BatchInputs] : n \in 0..MaxBatch }

\* The factories of the batch runs: they differ in the stage that fails.
BatchFactories ==
    { f \in ChainFactories :
        f.mutsPerTx = MaxMuts /\ f.sysWrites /\ f.requests = <<DepositRequest>> }

\* Mutant: a strategy reads the database only, without the changes
\* accumulated so far.
OverlayView_DatabaseOnly(state) == [base |-> state.database, writes |-> << >>]

\* What a strategy reads through its handle into the shared overlay: the
\* database and, on top of it, the changes accumulated so far.
OverlayView(state) == [base |-> state.database, writes |-> state.bundle]

\* Verification of a block's output against its header.
Verify(block, rcpts, gas) ==
    IF gas # block.gas_used THEN Err("gas_used_mismatch")
    ELSE IF ReceiptsRoot(rcpts) # block.receipts_root THEN Err("receipts_root_mismatch")
    ELSE Ok(Unit)

\* Mutant: a folded block's receipts and requests replace those of the
\* blocks before it.
Fold_KeepsLastBlockOnly(b, diff, rcpts, reqs) ==
    [b EXCEPT !.state.bundle = @ \o diff,
              !.receipts = <<rcpts>>,
              !.requests = <<reqs>>]

\* The batch executor after a verified block's diff, receipts and requests
\* have been folded into what it accumulates.
Fold(b, diff, rcpts, reqs) ==
    [b EXCEPT !.state.bundle = @ \o diff,
              !.receipts = Append(@, rcpts),
              !.requests = Append(@, reqs)]

\* The Outcome accumulated by a batch executor.
Accumulated(b) == [bundle |-> b.state.bundle, receipts |-> b.receipts, requests |-> b.requests]

BatchInit ==
    /\ \E f \in BatchFactories :
          provider = [strategy_factory |-> f, chain_spec |-> "MAINNET", evm_config |-> "EvmConfig"]
    /\ input = None
    /\ executor = None
    /\ mode = "none"
    /\ pc = "idle"
    /\ strategy = None
    /\ receipts = << >>
    /\ gas_used = 0
    /\ requests = << >>
    /\ result = None
    /\ calls = << >>
    /\ witnessSeen = << >>
    /\ hookSeen = << >>
    /\ mutLog = << >>
    /\ history = << >>
    /\ batch \in {TestExecutor, ChainBatchExecutor(provider.strategy_factory, Database(0))}
    /\ binputs \in BatchInputSeqs
    /\ bnext = 1
    /\ bstack = << >>
    /\ bpc = "idle"
    /\ bret = None
    /\ one = None
    /\ blog = << >>
    /\ bresults = << >>
    /\ outcome = None

\* The caller holds a batch executor and no method of it is running.
CallerCan == bpc = "idle" /\ batch # Moved

\* The innermost running method.
Running == IF bstack = << >> THEN "none" ELSE bstack[Len(bstack)]

\* The innermost running method returns v to its caller.
BReturn(v) ==
    LET rest == SubSeq(bstack, 1, Len(bstack) - 1)
    IN /\ bstack' = rest
       /\ bret' = v
       /\ IF rest = << >>
          THEN /\ bpc' = "idle"
               /\ bresults' = Append(bresults, [method |-> bstack[1], result |-> v])
          ELSE /\ bpc' = "called"
               /\ UNCHANGED bresults

\* execute_and_verify_one is entered with the input at index i.
EnterOne(i) ==
    /\ bstack' = Append(bstack, "one")
    /\ bpc' = "start"
    /\ blog' = Append(blog, [call |-> Len(bresults) + 1, idx |-> i, view |-> None, stages |-> << >>, events |-> << >>, res |-> None])

\* todo!()
Panic == bpc' = "panicked" /\ UNCHANGED <<bstack, bret, bresults>>

-----------------------------------------------------------------------------
(* The caller's calls *)

\* set_tip(tip)
Call_set_tip ==
    /\ CallerCan
    /\ IF batch.kind = "test"
       THEN Panic /\ UNCHANGED batch
       ELSE /\ batch' = [batch EXCEPT !.tip = Some(Len(binputs))]
            /\ UNCHANGED <<bstack, bpc, bret, bresults>>
    /\ UNCHANGED <<binputs, bnext, one, blog, outcome>>
    /\ UNCHANGED execVars

\* set_prune_modes(prune_modes)
Call_set_prune_modes ==
    /\ CallerCan
    /\ IF batch.kind = "test"
       THEN Panic /\ UNCHANGED batch
       ELSE /\ batch' = [batch EXCEPT !.prune_modes = Some("PruneModes")]
            /\ UNCHANGED <<bstack, bpc, bret, bresults>>
    /\ UNCHANGED <<binputs, bnext, one, blog, outcome>>
    /\ UNCHANGED execVars

\* execute_and_verify_one(input) on the next input of the caller
Call_execute_and_verify_one ==
    /\ CallerCan
    /\ Len(bresults) < MaxCalls
    /\ bnext <= Len(binputs)
    /\ EnterOne(bnext)
    /\ bnext' = bnext + 1
    /\ UNCHANGED <<batch, binputs, bret, one, bresults, outcome>>
    /\ UNCHANGED execVars

\* execute_and_verify_many(inputs) on the caller's remaining inputs
Call_execute_and_verify_many ==
    /\ CallerCan
    /\ Len(bresults) < MaxCalls
    /\ bstack' = <<"many">>
    /\ bpc' = "loop"
    /\ UNCHANGED <<batch, binputs, bnext, bret, one, blog, bresults, outcome>>
    /\ UNCHANGED execVars

\* execute_and_verify_batch(batch) on the caller's remaining inputs:
\* self.execute_and_verify_many(batch)
Call_execute_and_verify_batch ==
    /\ CallerCan
    /\ Len(bresults) < MaxCalls
    /\ bstack' = <<"batch", "many">>
    /\ bpc' = "loop"
    /\ UNCHANGED <<batch, binputs, bnext, bret, one, blog, bresults, outcome>>
    /\ UNCHANGED execVars

\* Mutant: finalize borrows the executor and leaves it usable.
Call_finalize_BorrowsSelf ==
    /\ CallerCan
    /\ IF batch.kind = "test"
       THEN Panic /\ UNCHANGED <<batch, outcome>>
       ELSE /\ outcome' = Accumulated(batch)
            /\ UNCHANGED batch
            /\ bresults' = Append(bresults, [method |-> "finalize", result |-> Accumulated(batch)])
            /\ UNCHANGED <<bstack, bpc, bret>>
    /\ UNCHANGED <<binputs, bnext, one, blog>>
    /\ UNCHANGED execVars

\* finalize(self)
Call_finalize ==
    /\ CallerCan
    /\ IF batch.kind = "test"
       THEN Panic /\ UNCHANGED <<batch, outcome>>
       ELSE /\ outcome' = Accumulated(batch)
            /\ batch' = Moved
            /\ bresults' = Append(bresults, [method |-> "finalize", result |-> Accumulated(batch)])
            /\ UNCHANGED <<bstack, bpc, bret>>
    /\ UNCHANGED <<binputs, bnext, one, blog>>
    /\ UNCHANGED execVars

-----------------------------------------------------------------------------
(* BatchExecutor::execute_and_verify_many *)

\* Mutant: the inputs are taken from the last one backwards.
Many_next_ReverseOrder ==
    /\ Running = "many" /\ bpc = "loop"
    /\ IF bnext <= Len(binputs)
       THEN /\ EnterOne(Len(binputs) + 1 - bnext)
            /\ bnext' = bnext + 1
            /\ UNCHANGED <<bret, bresults>>
       ELSE /\ BReturn(Ok(Unit))
            /\ UNCHANGED <<bnext, blog>>
    /\ UNCHANGED <<batch, binputs, one, outcome>>
    /\ UNCHANGED execVars

\* for input in inputs { self.execute_and_verify_one(input) ... }
Many_next ==
    /\ Running = "many" /\ bpc = "loop"
    /\ IF bnext <= Len(binputs)
       THEN /\ EnterOne(bnext)
            /\ bnext' = bnext + 1
            /\ UNCHANGED <<bret, bresults>>
       ELSE /\ BReturn(Ok(Unit))
            /\ UNCHANGED <<bnext, blog>>
    /\ UNCHANGED <<batch, binputs, one, outcome>>
    /\ UNCHANGED execVars

\* Mutant: the loop goes on to the next input after an error.
Many_try_IgnoresError ==
    /\ Running = "many" /\ bpc = "called"
    /\ bpc' = "loop"
    /\ UNCHANGED <<bstack, bret, bresults>>
    /\ UNCHANGED <<batch, binputs, bnext, one, blog, outcome>>
    /\ UNCHANGED execVars

\* ... ?; }
Many_try ==
    /\ Running = "many" /\ bpc = "called"
    /\ IF bret.ok
       THEN bpc' = "loop" /\ UNCHANGED <<bstack, bret, bresults>>
       ELSE BReturn(bret)
    /\ UNCHANGED <<batch, binputs, bnext, one, blog, outcome>>
    /\ UNCHANGED execVars

-----------------------------------------------------------------------------
(* BatchExecutor::execute_and_verify_batch *)

\* Mutant: finalize is called whether or not execute_and_verify_many failed.
Batch_finalize_AfterError ==
    /\ Running = "batch" /\ bpc = "called"
    /\ IF batch.kind = "test"
       THEN Panic /\ UNCHANGED <<batch, outcome>>
       ELSE /\ BReturn(Ok(Accumulated(batch)))
            /\ outcome' = Accumulated(batch)
            /\ batch' = Moved
    /\ UNCHANGED <<binputs, bnext, one, blog>>
    /\ UNCHANGED execVars

\* self.execute_and_verify_many(batch)?; Ok(self.finalize())
Batch_finalize ==
    /\ Running = "batch" /\ bpc = "called"
    /\ IF ~bret.ok
       THEN BReturn(bret) /\ batch' = Moved /\ UNCHANGED outcome
       ELSE IF batch.kind = "test"
            THEN Panic /\ UNCHANGED <<batch, outcome>>
            ELSE /\ BReturn(Ok(Accumulated(batch)))
                 /\ outcome' = Accumulated(batch)
                 /\ batch' = Moved
    /\ UNCHANGED <<binputs, bnext, one, blog>>
    /\ UNCHANGED execVars

-----------------------------------------------------------------------------
(* execute_and_verify_one *)

\* The input of the running execute_and_verify_one.
OneInput == binputs[blog[Len(blog)].idx]

\* The state changes evs of a stage of the running execute_and_verify_one.
OneWrote(evs) == [blog EXCEPT ![Len(blog)].events = @ \o evs]

\* The running execute_and_verify_one has completed a stage with state changes evs.
OneLogged(stage, evs) ==
    [blog EXCEPT ![Len(blog)].events = @ \o evs, ![Len(blog)].stages = Append(@, stage)]

\* The running execute_and_verify_one returns r after a stage with events evs.
OneReturn(r, evs) ==
    /\ BReturn(r)
    /\ one' = None
    /\ blog' = [OneWrote(evs) EXCEPT ![Len(blog)].res = r]

\* tests::TestExecutor::execute_and_verify_one: Ok(())
One_test ==
    /\ Running = "one" /\ bpc = "start"
    /\ batch.kind = "test"
    /\ OneReturn(Ok(Unit), << >>)
    /\ UNCHANGED <<batch, binputs, bnext, outcome>>
    /\ UNCHANGED execVars

\* The strategy of the block is created with a handle into the shared overlay.
One_create ==
    /\ Running = "one" /\ bpc = "start"
    /\ batch.kind = "chain"
    /\ LET r == create(batch.strategy_factory, OneInput.block, OneInput.total_difficulty)
       IN IF r.ok
          THEN /\ one' = [strategy |-> [r.value EXCEPT !.state = StateBuild(OverlayView(batch.state))],
                          receipts |-> << >>, gas_used |-> 0, requests |-> << >>]
               /\ blog' = [OneLogged("create", << >>) EXCEPT ![Len(blog)].view = one'.strategy.state.database]
               /\ bpc' = "created"
               /\ UNCHANGED <<bstack, bret, bresults>>
          ELSE OneReturn(Err(r.error), << >>)
    /\ UNCHANGED <<batch, binputs, bnext, outcome>>
    /\ UNCHANGED execVars

One_apply_pre_execution_changes ==
    /\ Running = "one" /\ bpc = "created"
    /\ LET st == apply_pre_execution_changes(one.strategy)
       IN IF st.res.ok
          THEN /\ one' = [one EXCEPT !.strategy = st.strategy]
               /\ blog' = OneLogged("apply_pre_execution_changes", st.events)
               /\ bpc' = "pre_applied"
               /\ UNCHANGED <<bstack, bret, bresults>>
          ELSE OneReturn(Err(st.res.error), st.events)
    /\ UNCHANGED <<batch, binputs, bnext, outcome>>
    /\ UNCHANGED execVars

One_execute_transactions ==
    /\ Running = "one" /\ bpc = "pre_applied"
    /\ LET st == execute_transactions(one.strategy, OneInput.block)
       IN IF st.res.ok
          THEN /\ one' = [one EXCEPT !.strategy = st.strategy,
                                     !.receipts = st.res.value[1],
                                     !.gas_used = st.res.value[2]]
               /\ blog' = OneLogged("execute_transactions", st.events)
               /\ bpc' = "txs_executed"
               /\ UNCHANGED <<bstack, bret, bresults>>
          ELSE OneReturn(Err(st.res.error), st.events)
    /\ UNCHANGED <<batch, binputs, bnext, outcome>>
    /\ UNCHANGED execVars

One_apply_post_execution_changes ==
    /\ Running = "one" /\ bpc = "txs_executed"
    /\ LET st == apply_post_execution_changes(one.strategy)
       IN IF st.res.ok
          THEN /\ one' = [one EXCEPT !.strategy = st.strategy, !.requests = st.res.value]
               /\ blog' = OneLogged("apply_post_execution_changes", st.events)
               /\ bpc' = "post_applied"
               /\ UNCHANGED <<bstack, bret, bresults>>
          ELSE OneReturn(Err(st.res.error), st.events)
    /\ UNCHANGED <<batch, binputs, bnext, outcome>>
    /\ UNCHANGED execVars

\* Mutant: the block's output is folded whether or not it passes verification.
One_verify_FoldsUnverified ==
    /\ Running = "one" /\ bpc = "post_applied"
    /\ LET state == finish(one.strategy)
           v == Verify(OneInput.block, one.receipts, one.gas_used)
       IN /\ OneReturn(v, << >>)
          /\ batch' = Fold(batch, state, one.receipts, one.requests)
    /\ UNCHANGED <<binputs, bnext, outcome>>
    /\ UNCHANGED execVars

\* The block's output is verified against its header and, if it passes,
\* folded into what the batch executor accumulates.
One_verify ==
    /\ Running = "one" /\ bpc = "post_applied"
    /\ LET state == finish(one.strategy)
           v == Verify(OneInput.block, one.receipts, one.gas_used)
       IN /\ OneReturn(v, << >>)
          /\ batch' = IF v.ok THEN Fold(batch, state, one.receipts, one.requests) ELSE batch
    /\ UNCHANGED <<binputs, bnext, outcome>>
    /\ UNCHANGED execVars

ExecuteAndVerifyOne ==
    \/ One_test
    \/ One_create
    \/ One_apply_pre_execution_changes
    \/ One_execute_transactions
    \/ One_apply_post_execution_changes
    \/ One_verify

-----------------------------------------------------------------------------
(* Single-block execution of the blocks a finalized batch covered *)

\* The indices of the inputs whose execute_and_verify_one succeeded.
Covered == SelectSeq([i \in 1..Len(blog) |-> IF blog[i].res # None /\ blog[i].res.ok
                                              THEN blog[i].idx ELSE 0],
                     LAMBDA i : i > 0)

RECURSIVE Concat(_)
Concat(ss) == IF ss = << >> THEN << >> ELSE ss[1] \o Concat(Tail(ss))

\* The Outputs of the finished single-block executions, folded in order.
FoldOutputs(h) ==
    [bundle |-> Concat([i \in 1..Len(h) |-> h[i].result.value.state]),
     receipts |-> [i \in 1..Len(h) |-> h[i].result.value.receipts],
     requests |-> [i \in 1..Len(h) |-> h[i].result.value.requests]]

\* The database of the batch with the state of the executions so far on top.
Threaded(h) == [base |-> Database(0), writes |-> FoldOutputs(h).bundle]

\* GenericExecutorProvider::executor for the next covered block, over the
\* state threaded forward from the executions before it.
Single_executor ==
    /\ outcome # None
    /\ pc \in {"idle", "returned"}
    /\ Len(history) < Len(Covered)
    /\ \A i \in 1..Len(history) : history[i].result.ok
    /\ input' = binputs[Covered[Len(history) + 1]]
    /\ executor' = GenericBlockExecutor_new(provider.strategy_factory, provider.chain_spec,
                                            provider.evm_config, StateBuild(Threaded(history)))
    /\ pc' = "ready"
    /\ mode' = "none"
    /\ strategy' = None
    /\ receipts' = << >>
    /\ gas_used' = 0
    /\ requests' = << >>
    /\ result' = None
    /\ calls' = << >>
    /\ witnessSeen' = << >>
    /\ hookSeen' = << >>
    /\ mutLog' = << >>
    /\ UNCHANGED <<provider, history>>
    /\ UNCHANGED batchVars

BatchNext ==
    \/ Call_set_tip
    \/ Call_set_prune_modes
    \/ Call_execute_and_verify_one
    \/ Call_execute_and_verify_many
    \/ Call_execute_and_verify_batch
    \/ Call_finalize
    \/ Many_next
    \/ Many_try
    \/ Batch_finalize
    \/ ExecuteAndVerifyOne
    \/ Single_executor
    \/ Execute

BatchSpec == BatchInit /\ [][BatchNext]_vars

-----------------------------------------------------------------------------
(* Properties *)

Names(cs) == [i \in DOMAIN cs |-> cs[i].name]

IsStage(c) ==
    c.name \in {"create", "apply_pre_execution_changes", "execute_transactions",
                "apply_post_execution_changes", "finish"}

IsFallible(c) ==
    c.name \in {"create", "apply_pre_execution_changes", "execute_transactions",
                "apply_post_execution_changes"}

StageCalls == Names(SelectSeq(calls, IsStage))

StageOrder ==
    <<"create", "apply_pre_execution_changes", "execute_transactions",
      "apply_post_execution_changes", "finish">>

IsPrefix(a, b) == Len(a) <= Len(b) /\ a = SubSeq(b, 1, Len(a))

Returned == pc = "returned"

Succeeded == Returned /\ result.ok

\* The state changes the strategy has made so far, in order.
Mutations == [i \in DOMAIN mutLog |-> mutLog[i].event]

\* C1: at every point of a run of execute, execute_with_state_witness or
\* execute_with_state_hook the factory and stage calls made so far are an
\* initial part of create, apply_pre_execution_changes, execute_transactions,
\* apply_post_execution_changes, finish; a successful run has made exactly
\* these five calls, each once, in that order.
C1_StagesInOrder ==
    /\ IsPrefix(StageCalls, StageOrder)
    /\ Succeeded => StageCalls = StageOrder

C1_Witness == Succeeded /\ mode = "hook" /\ input.block.txs = MaxTxs

\* C2: the Output of a successful execute holds the receipts and gas used
\* that execute_transactions returned, the requests that
\* apply_post_execution_changes returned and the state that finish returned.
C2_OutputFromStages ==
    (Succeeded /\ mode = "execute") =>
        /\ result.value.receipts = calls[3].ret.value[1]
        /\ result.value.gas_used = calls[3].ret.value[2]
        /\ result.value.requests = calls[4].ret.value
        /\ result.value.state = calls[5].ret

C2_Witness ==
    /\ Succeeded /\ mode = "execute"
    /\ result.value.state # << >>
    /\ result.value.receipts # << >>
    /\ result.value.requests # << >>

\* C3: once a stage has returned an error the method has returned that very
\* error: the failing call is the last call made (so finish was never
\* called), and the result is no Output.
C3_FirstErrorReturned ==
    \A i \in DOMAIN calls :
        (calls[i].name \in {"apply_pre_execution_changes", "execute_transactions",
                            "apply_post_execution_changes"} /\ ~calls[i].ret.ok) =>
            /\ i = Len(calls)
            /\ Returned
            /\ result = Err(calls[i].ret.error)
            /\ \A j \in DOMAIN calls : calls[j].name # "finish"

C3_Witness ==
    /\ Returned /\ mode = "hook" /\ result = Err("txs")
    /\ Len(mutLog) > 0

\* C4: when create fails, it is the only call the method makes: the error is
\* returned, no strategy exists, no state change has happened, neither the
\* witness nor the hook has observed anything, and the executor's state
\* overlay is as the provider built it.
C4_CreateFailureIsClean ==
    (Len(calls) >= 1 /\ ~calls[1].ret.ok) =>
        /\ Len(calls) = 1
        /\ Returned
        /\ result = Err(calls[1].ret.error)
        /\ strategy = None
        /\ mutLog = << >>
        /\ hookSeen = << >>
        /\ witnessSeen = << >>
        /\ executor.state = StateBuild(Database(Len(history)))

C4_Witness == Returned /\ mode = "hook" /\ result = Err("create")

\* C5: a successful execute_with_state_witness has invoked the witness
\* exactly once, between apply_post_execution_changes and finish, with the
\* strategy's state holding every state change the stages made.
C5_WitnessOnceBeforeFinish ==
    (Succeeded /\ mode = "witness") =>
        /\ Names(calls) = <<"create", "apply_pre_execution_changes", "execute_transactions",
                            "apply_post_execution_changes", "witness", "finish">>
        /\ Len(witnessSeen) = 1
        /\ witnessSeen[1].bundle = Mutations

C5_Witness ==
    /\ Succeeded /\ mode = "witness"
    /\ \E i \in DOMAIN mutLog : mutLog[i].event.stage = "post"

-----------------------------------------------------------------------------

\* The finished calls of each method.
Finished(m) == { i \in DOMAIN history : history[i].mode = m }

\* The fallible calls made so far all returned Ok.
AllOk == \A i \in DOMAIN calls : IsFallible(calls[i]) => calls[i].ret.ok

\* C6: on the same input and strategy factory, execute_with_state_witness
\* returns the same result, Output or error, as execute.
C6_WitnessSameAsExecute ==
    \A i \in Finished("execute"), j \in Finished("witness") :
        history[i].result = history[j].result

C6_Witness ==
    \E i \in Finished("execute"), j \in Finished("witness") :
        /\ i < j
        /\ history[j].result.ok
        /\ history[j].result.value.state # << >>

\* C7: in execute_with_state_hook every stage call comes after create and
\* with_state_hook(Some(hook)), made first and second, and every state change
\* a stage makes is made with the hook installed.
C7_HookInstalledBeforeStages ==
    mode = "hook" =>
        /\ \A i \in DOMAIN calls :
              calls[i].name \in {"apply_pre_execution_changes", "execute_transactions",
                                 "apply_post_execution_changes", "finish"} =>
                  /\ i > 2
                  /\ calls[1].name = "create"
                  /\ calls[2].name = "with_state_hook"
                  /\ calls[2].arg # None
        /\ \A i \in DOMAIN mutLog : mutLog[i].hooked

C7_Witness ==
    /\ mode = "hook" /\ pc = "pre_applied"
    /\ Len(mutLog) = 1 /\ mutLog[1].event.stage = "pre"

\* Every transaction of the block has made at least one state change.
EveryTxMutates ==
    \A t \in 1..input.block.txs :
        \E i \in DOMAIN mutLog : mutLog[i].event.stage = "tx" /\ mutLog[i].event.idx = t

\* C8: when execute_with_state_hook returns an Output for a block of T
\* transactions each of which changed state, the hook has been notified of
\* at least T distinct state changes.
C8_HookSeesEveryTx ==
    (Succeeded /\ mode = "hook" /\ EveryTxMutates) =>
        Cardinality({ hookSeen[i] : i \in DOMAIN hookSeen }) >= input.block.txs

C8_Witness ==
    /\ Succeeded /\ mode = "hook" /\ EveryTxMutates
    /\ input.block.txs = MaxTxs
    /\ Len(hookSeen) >= MaxTxs

\* The cumulative gas used the run produced is the block's declared gas used.
GasMatches == gas_used = input.block.gas_used

\* The receipts the run produced are those the block's receipts root commits to.
ReceiptsMatch == ReceiptsRoot(receipts) = input.block.receipts_root

-----------------------------------------------------------------------------

\* What the call named n, made by the running method, returned.
Returns(n) == calls[CHOOSE i \in DOMAIN calls : calls[i].name = n].ret

\* The strategies of the provider's factory are chain-family strategies,
\* which derive receipts and gas from the block's transactions.
ChainStrategy == provider.strategy_factory.kind = "chain"

\* C11 as stated: the Output of a successfully executed block has the sum of
\* the transactions' gas as gas_used and one receipt per transaction.
C11_GasAndReceiptsPerTransaction ==
    Succeeded =>
        /\ result.value.gas_used = SumTo(input.block.txs)
        /\ Len(result.value.receipts) = input.block.txs

\* C11 as amended: the Output of a successfully executed block has the gas
\* used and the receipts that the strategy's execute_transactions returned;
\* with a chain-family strategy these are the sum of the transactions' gas
\* and one receipt per transaction.
C11_GasAndReceiptsFromStrategy ==
    Succeeded =>
        /\ result.value.gas_used = Returns("execute_transactions").value[2]
        /\ result.value.receipts = Returns("execute_transactions").value[1]
        /\ ChainStrategy =>
              /\ result.value.gas_used = SumTo(input.block.txs)
              /\ Len(result.value.receipts) = input.block.txs

C11_Witness ==
    /\ Succeeded /\ mode = "witness" /\ ChainStrategy
    /\ input.block.txs = MaxTxs
    /\ result.value.gas_used > Len(result.value.receipts)

\* The block is empty and its post-execution stage yielded one deposit request.
EmptyBlockWithDeposit ==
    /\ input.block.txs = 0
    /\ Returns("apply_post_execution_changes") = Ok(<<DepositRequest>>)

\* C12 as stated: an empty block whose post-execution stage yields one
\* deposit request gives gas_used = 0, no receipts and that one request.
C12_EmptyBlockOutput ==
    (Succeeded /\ EmptyBlockWithDeposit) =>
        /\ result.value.gas_used = 0
        /\ result.value.receipts = << >>
        /\ result.value.requests = <<DepositRequest>>

\* C12 as amended: such a block gives exactly that one request, and the gas
\* used and receipts that execute_transactions returned: 0 and none with a
\* chain-family strategy.
C12_EmptyBlockOutputFromStrategy ==
    (Succeeded /\ EmptyBlockWithDeposit) =>
        /\ result.value.requests = <<DepositRequest>>
        /\ result.value.gas_used = Returns("execute_transactions").value[2]
        /\ result.value.receipts = Returns("execute_transactions").value[1]
        /\ ChainStrategy => (result.value.gas_used = 0 /\ result.value.receipts = << >>)

C12_Witness ==
    /\ Succeeded /\ mode = "hook" /\ EmptyBlockWithDeposit /\ ChainStrategy
    /\ result.value.state # << >>

-----------------------------------------------------------------------------

\* C20: every executor the provider creates holds a fresh overlay (empty
\* bundle, bundle accumulation on, state clearing off) over the database
\* handle of that call and refers to the provider's strategy factory; no
\* step, the creation of an executor included, changes the provider.
C20_FreshOverlayPerExecutor ==
    [][ /\ provider' = provider
        /\ (pc # "ready" /\ pc' = "ready") =>
              /\ executor'.state = [database |-> Database(Len(history) + 1),
                                    bundle_update |-> TRUE,
                                    state_clear |-> FALSE,
                                    bundle |-> << >>]
              /\ executor'.strategy_factory = provider.strategy_factory
              /\ executor # None => executor'.state.database # executor.state.database ]_vars

C20_Witness ==
    /\ pc = "ready"
    /\ Len(history) = 1
    /\ history[1].result.ok
    /\ executor.state.database = Database(2)

-----------------------------------------------------------------------------
(* Properties of batch execution *)

\* The batch executor keeps an Outcome (tests::TestExecutor keeps none).
KeepsOutcome == batch # None /\ batch.kind = "chain"

\* This step is the return of the running execute_and_verify_one.
OneReturns == Running = "one" /\ bstack' # bstack

\* The output of the running execute_and_verify_one agrees with the header.
OneVerified ==
    /\ one.gas_used = OneInput.block.gas_used
    /\ ReceiptsRoot(one.receipts) = OneInput.block.receipts_root

\* C13: execute_and_verify_one changes the Outcome only in the step that
\* returns Ok after all four stages completed and the gas used and the
\* receipts agree with the header; while it runs, and when a stage or the
\* verification fails, it returns an error and the Outcome stays exactly
\* what it was before the call.
C13_FoldsOnlyVerifiedBlocks ==
    [][ (KeepsOutcome /\ Running = "one") =>
          /\ batch'.kind = "chain"
          /\ Accumulated(batch') # Accumulated(batch) =>
                /\ OneReturns /\ bret' = Ok(Unit)
                /\ bpc = "post_applied"
                /\ blog[Len(blog)].stages = SubSeq(StageOrder, 1, 4)
                /\ OneVerified
                /\ Accumulated(batch') = Accumulated(Fold(batch, finish(one.strategy),
                                                           one.receipts, one.requests))
          /\ (OneReturns /\ ~(bpc = "post_applied" /\ OneVerified)) =>
                /\ ~bret'.ok
                /\ batch' = batch ]_vars

\* A block was folded and the next one, whose stages wrote state, failed
\* verification: the Outcome covers the first block only.
C13_Witness ==
    /\ KeepsOutcome
    /\ Len(blog) = 2
    /\ blog[1].res = Ok(Unit)
    /\ blog[2].res = Err("receipts_root_mismatch")
    /\ blog[2].events # << >>
    /\ Accumulated(batch).receipts = <<BlockReceipts(binputs[1].block.txs)>>

-----------------------------------------------------------------------------

\* The invocations of execute_and_verify_one made during the caller's c-th call.
EntriesOf(c) == SelectSeq(blog, LAMBDA e : e.call = c)

\* What executing the block of inp alone yields, stage by stage.
BlockOutput(f, inp) ==
    LET c == create(f, inp.block, inp.total_difficulty)
        p == apply_pre_execution_changes(c.value)
        t == execute_transactions(p.strategy, inp.block)
        q == apply_post_execution_changes(t.strategy)
    IN [state |-> finish(q.strategy), receipts |-> t.res.value[1], requests |-> q.res.value]

\* The Outcome that results from executing only the inputs ins.
OutcomeOver(f, ins) ==
    [bundle |-> Concat([i \in 1..Len(ins) |-> BlockOutput(f, ins[i]).state]),
     receipts |-> [i \in 1..Len(ins) |-> BlockOutput(f, ins[i]).receipts],
     requests |-> [i \in 1..Len(ins) |-> BlockOutput(f, ins[i]).requests]]

\* The inputs whose execute_and_verify_one has returned Ok, in order.
CoveredInputs == [i \in 1..Len(Covered) |-> binputs[Covered[i]]]

\* C14: a returned execute_and_verify_many has invoked execute_and_verify_one
\* on consecutive inputs and only its last invocation can have failed; if one
\* failed, the call returned that error and no later input was invoked; right
\* after the call the Outcome is the one that results from executing only
\* the inputs that succeeded, those before the failing one included.
C14_ManyStopsAtFirstFailure ==
    \A c \in 1..Len(bresults) :
        bresults[c].method = "many" =>
            LET es == EntriesOf(c)
                r == bresults[c].result
            IN /\ \A i \in 1..(Len(es) - 1) : es[i].res.ok /\ es[i + 1].idx = es[i].idx + 1
               /\ IF r.ok
                  THEN \A i \in 1..Len(es) : es[i].res.ok
                  ELSE Len(es) > 0 /\ es[Len(es)].res = r
               /\ (c = Len(bresults) /\ bpc = "idle") =>
                     /\ bnext = IF r.ok THEN Len(binputs) + 1 ELSE es[Len(es)].idx + 1
                     /\ KeepsOutcome =>
                           Accumulated(batch) = OutcomeOver(batch.strategy_factory, CoveredInputs)

\* Of three inputs the second failed: the call returned its error, the third
\* was never invoked and the Outcome covers the first.
C14_Witness ==
    /\ KeepsOutcome /\ bpc = "idle"
    /\ Len(binputs) = 3
    /\ Len(bresults) = 1 /\ bresults[1].method = "many" /\ ~bresults[1].result.ok
    /\ Len(blog) = 2 /\ blog[1].res.ok /\ blog[2].res = bresults[1].result
    /\ Len(Accumulated(batch).receipts) = 1
    /\ Accumulated(batch).bundle # << >>

-----------------------------------------------------------------------------

\* The blog entry of the i-th covered block.
CoveredEntry(i) == SelectSeq(blog, LAMBDA e : e.res # None /\ e.res.ok)[i]

-----------------------------------------------------------------------------

\* C16: a returned execute_and_verify_batch has consumed the executor. If it
\* returned Ok, every invocation of execute_and_verify_one it made succeeded,
\* the last one was on the last input, and the value is the Outcome finalize
\* returned, which results from executing the covered inputs. If it returned
\* an error, that is the error of its last invocation, finalize was not
\* called and there is no Outcome.
C16_BatchIsManyThenFinalize ==
    \A c \in 1..Len(bresults) :
        bresults[c].method = "batch" =>
            LET es == EntriesOf(c)
                r == bresults[c].result
            IN /\ batch = Moved
               /\ c = Len(bresults)
               /\ \A i \in 1..(Len(es) - 1) : es[i].res.ok /\ es[i + 1].idx = es[i].idx + 1
               /\ IF r.ok
                  THEN /\ \A i \in 1..Len(es) : es[i].res.ok
                       /\ bnext = Len(binputs) + 1
                       /\ outcome # None
                       /\ r.value = outcome
                       /\ outcome = OutcomeOver(provider.strategy_factory, CoveredInputs)
                  ELSE /\ Len(es) > 0 /\ es[Len(es)].res = r
                       /\ outcome = None

\* execute_and_verify_batch over three inputs returned an Outcome with the
\* receipts of three blocks.
C16_Witness ==
    /\ Len(binputs) = 3
    /\ Len(bresults) = 1
    /\ bresults[1].method = "batch" /\ bresults[1].result.ok
    /\ Len(bresults[1].result.value.receipts) = 3
    /\ bresults[1].result.value.bundle # << >>
    /\ batch = Moved

-----------------------------------------------------------------------------

\* finalize or execute_and_verify_batch has returned.
Finalized == \E c \in 1..Len(bresults) : bresults[c].method \in {"finalize", "batch"}

\* C17: once finalize or execute_and_verify_batch has returned, no step is
\* a call on that batch executor: no execute_and_verify_one starts, no call
\* returns, tip and prune modes are not set, nothing is finalized again, and
\* the Outcome that was returned stays what it is.
C17_FinalizeIsTerminal ==
    [][ Finalized =>
          /\ batch' = batch
          /\ outcome' = outcome
          /\ blog' = blog
          /\ bresults' = bresults
          /\ bstack' = bstack /\ bpc' = bpc /\ bnext' = bnext ]_vars

\* finalize returned an Outcome covering one block while inputs were left,
\* and steps were taken afterwards.
C17_Witness ==
    /\ Finalized
    /\ bresults[Len(bresults)].method = "finalize"
    /\ outcome = bresults[Len(bresults)].result
    /\ Len(outcome.receipts) = 1
    /\ bnext <= Len(binputs)
    /\ Len(history) = 1 /\ pc = "returned"

-----------------------------------------------------------------------------

\* C18: as long as the batch executor is not finalized, every step leaves
\* the state diff, the per-block receipts and the per-block requests it has
\* accumulated as a prefix of what it has afterwards; the number of blocks
\* covered goes up by one in the step in which an execute_and_verify_one
\* returns Ok, stays the same in every other step, and is the number of
\* successful invocations; finalize returns what has been accumulated.
C18_OutcomeGrowsByOneBlockPerSuccess ==
    [][ KeepsOutcome =>
          /\ Len(batch.receipts) = Len(Covered)
          /\ Len(batch.requests) = Len(Covered)
          /\ batch'.kind = "chain" =>
                /\ IsPrefix(batch.state.bundle, batch'.state.bundle)
                /\ IsPrefix(batch.receipts, batch'.receipts)
                /\ IsPrefix(batch.requests, batch'.requests)
                /\ Len(batch'.receipts) =
                      Len(batch.receipts) + (IF OneReturns /\ bret'.ok THEN 1 ELSE 0)
          /\ (batch' = Moved /\ outcome' # None) => outcome' = Accumulated(batch) ]_vars

\* Three invocations, the second of which failed: the Outcome covers the
\* first and the third block.
C18_Witness ==
    /\ KeepsOutcome /\ bpc = "idle"
    /\ Len(blog) = 3
    /\ blog[1].res.ok /\ ~blog[2].res.ok /\ blog[3].res.ok
    /\ blog[2].events # << >>
    /\ Len(batch.receipts) = 2
    /\ Covered = <<1, 3>>

-----------------------------------------------------------------------------

\* The state changes of the successful invocations before the i-th one.
WritesBefore(i) ==
    Concat([j \in 1..(i - 1) |-> IF blog[j].res.ok THEN blog[j].events ELSE << >>])

\* C19: the strategy of every block of a batch reads the database the batch
\* executor was created over with, on top of it, the state changes of all
\* earlier blocks whose execute_and_verify_one succeeded, in order, and no
\* state change of a block that failed; while a block runs, its strategy
\* keeps reading that.
C19_LaterBlocksSeeEarlierWrites ==
    /\ \A i \in 1..Len(blog) :
          blog[i].view # None =>
              blog[i].view = [base |-> Database(0), writes |-> WritesBefore(i)]
    /\ one # None => one.strategy.state.database = blog[Len(blog)].view

\* The first block wrote state and was folded, the second wrote state and
\* failed, and the third reads the writes of the first only.
C19_Witness ==
    /\ Len(blog) = 3
    /\ blog[1].res.ok /\ blog[1].events # << >>
    /\ ~blog[2].res.ok /\ blog[2].events # << >>
    /\ blog[3].view # None
    /\ blog[3].view.writes = blog[1].events
    /\ one # None /\ bpc = "txs_executed"

-----------------------------------------------------------------------------

\* The caller's c-th call is an execute_and_verify_many, returned or running.
IsMany(c) ==
    IF c <= Len(bresults) THEN bresults[c].method = "many"
    ELSE bstack # << >> /\ bstack[1] = "many"

\* C21: the invocations of execute_and_verify_one are on the inputs in their
\* order, each input at most once; within an execute_and_verify_many every
\* invocation but the last has returned Ok before the next one began, so at
\* most one is running; and an execute_and_verify_many that returned Ok has
\* invoked execute_and_verify_one on every input up to the last.
C21_ManyRunsInputsInOrder ==
    /\ \A i \in 1..Len(blog) : blog[i].idx = i
    /\ \A c \in 1..(Len(bresults) + 1) :
          IsMany(c) =>
              LET es == EntriesOf(c)
              IN /\ \A i \in 1..(Len(es) - 1) :
                       /\ es[i].res # None /\ es[i].res.ok
                       /\ es[i + 1].idx = es[i].idx + 1
                 /\ (c <= Len(bresults) /\ bresults[c].result.ok) =>
                       /\ \A i \in 1..Len(es) : es[i].res = Ok(Unit)
                       /\ Len(es) > 0 => es[Len(es)].idx = Len(binputs)
                       /\ Len(blog) = Len(binputs)
    /\ (\E i \in 1..Len(blog) : blog[i].res = None) =>
          /\ blog[Len(blog)].res = None
          /\ Running = "one"
          /\ \A i \in 1..(Len(blog) - 1) : blog[i].res # None

\* tests::TestExecutor went through three inputs in one
\* execute_and_verify_many, the third invocation is running.
C21_Witness ==
    /\ batch = TestExecutor
    /\ Len(binputs) = 3
    /\ bstack = <<"many", "one">>
    /\ Len(blog) = 3
    /\ blog[1].res = Ok(Unit) /\ blog[2].res = Ok(Unit) /\ blog[3].res = None
    /\ binputs[1] # binputs[2]

-----------------------------------------------------------------------------

\* C22: in execute_with_state_witness, when create or a stage has returned
\* an error, the method has returned that error and the witness has not been
\* invoked; whenever the witness has been invoked, create and the three
\* stages before it all returned Ok.
C22_NoWitnessOnFailure ==
    mode = "witness" =>
        /\ \A i \in DOMAIN calls :
              (IsFallible(calls[i]) /\ ~calls[i].ret.ok) =>
                  /\ Returned
                  /\ result = Err(calls[i].ret.error)
                  /\ witnessSeen = << >>
                  /\ \A j \in DOMAIN calls : calls[j].name # "witness"
        /\ witnessSeen # << >> =>
              /\ AllOk
              /\ IsPrefix(SubSeq(StageOrder, 1, 4), StageCalls)

\* The post-execution stage failed after earlier stages had changed state.
C22_Witness ==
    /\ Returned /\ mode = "witness"
    /\ result = Err("post")
    /\ mutLog # << >>
    /\ Len(calls) = 4

-----------------------------------------------------------------------------

\* C23: an executor's own state overlay stays as the provider built it, with
\* an empty bundle, through every step of execute, execute_with_state_witness
\* and execute_with_state_hook; it is no argument of a call to the factory
\* or the strategy and the strategy does not work on it; the witness is
\* shown the strategy's state_ref, not the executor's overlay; and the state
\* of a returned Output is what the strategy's finish returned.
C23_OwnOverlayUntouched ==
    [][ executor # None =>
          /\ executor' # executor => (pc \in {"idle", "returned"} /\ pc' = "ready")
          /\ executor.state = StateBuild(executor.state.database)
          /\ strategy # None => state_ref(strategy).database # executor.state.database
          /\ \A i \in DOMAIN calls : calls[i].arg # executor.state
          /\ \A i \in DOMAIN witnessSeen : witnessSeen[i] # executor.state
          /\ Len(witnessSeen') > Len(witnessSeen) =>
                witnessSeen' = Append(witnessSeen, state_ref(strategy))
          /\ Succeeded => result.value.state = Returns("finish") ]_vars

\* The second executor of a behaviour returned an Output whose state holds
\* changes the witness saw, while its own overlay is still empty.
C23_Witness ==
    /\ Succeeded /\ mode = "witness" /\ ChainStrategy
    /\ Len(history) = 2
    /\ result.value.state # << >>
    /\ witnessSeen[1].bundle = result.value.state
    /\ executor.state = StateBuild(Database(2))

====
